---- MODULE Spec2Model ----
(***************************************************************************)
(* A model of doser (src/doser/__init__.py): the Dose value type with its  *)
(* two time windows and derived status, and the DoseManager that keeps the *)
(* rows of the table, mutated from the UI thread and refreshed by the      *)
(* background poller thread under one RLock.                               *)
(*                                                                         *)
(* Time is counted in ticks of 15 seconds (the shortest predefined         *)
(* duration); the clock is the value now("utc") returns.  perf_counter     *)
(* durations of a poll pass are counted in tenths of a second.             *)
(*                                                                         *)
(* Specifications: SpecDose (one Dose, the clock moved by hand), SpecUI    *)
(* and SpecReset (the UI thread's handlers under a ticking clock), Spec    *)
(* and FairSpec (the UI thread and the poller thread interleaved), SpecRow *)
(* (the poller's row update under a ticking clock).                        *)
(***************************************************************************)
EXTENDS Integers, Sequences, FiniteSets, TLC

VARIABLES
    clock,          \* now("utc"), in ticks
    d,              \* the Dose under test (tests/test___init__.py: dose)
    obs,            \* the last value read from d.status and the clock it was read at
    rows,           \* DoseManager._table.rows: the sequence of DoseRow ids
    dose,           \* DoseRow.dose of every row created so far
    disp,           \* the display fields DoseRow.update publishes, per row
    nextId,         \* identity of the next DoseRow object
    lock,           \* owner of DoseManager._dose_lock
    run,            \* DoseManager._run
    mounted,        \* whether the control is on the page (did_mount/will_unmount alternate)
    thread,         \* DoseManager._table_update_thread: pc, cursor and locals of _updater
    ui,             \* the UI thread: the handler in progress and its locals
    raised          \* the handlers that ended by raising an exception

vars == <<clock, d, obs, rows, dose, disp, nextId, lock, run, mounted, thread, ui, raised>>

-----------------------------------------------------------------------------
(* Bounds of the model *)

MaxRows == 2          \* DoseRow objects created in one behaviour
MaxClock == 3         \* the manager's clock runs over 0..MaxClock
MaxWhen == 1          \* |int(when_value.value)| typed into the "how long ago" field
MaxPassDuration == 4  \* longest measured poll pass, in tenths of a second

(* Program constants *)

update_frequency == 3 \* DoseManager.update_frequency = 0.3 s, in tenths of a second

-----------------------------------------------------------------------------
(* IngestionMethod and the predefined methods, durations in ticks of 15 s *)

DRY_HERB == [name |-> "Dry Herb", onset |-> 60, duration |-> 480]
EDIBLE == [name |-> "Edible", onset |-> 480, duration |-> 1440]
FAKE_TEST_INGEST == [name |-> "TEST", onset |-> 1, duration |-> 1]

ingest_methods == {EDIBLE, DRY_HERB, FAKE_TEST_INGEST}

\* pendulum.duration(minutes=n) / duration(hours=n), in ticks
UnitTicks(unit) == IF unit = "minutes" THEN 4 ELSE 240

Abs(x) == IF x < 0 THEN -x ELSE x

-----------------------------------------------------------------------------
(* Dose *)

Period(s, e) == [start |-> s, end |-> e]

\* `n in period`: pendulum's Period.__contains__ is start <= n <= end
InPeriod(n, p) == p.start <= n /\ n <= p.end

\* Dose.new
DoseNew(strain, method, ingested) ==
    LET proc_time == Period(ingested, ingested + method.onset)
    IN [strain |-> strain,
        method |-> method,
        ingested |-> ingested,
        processing_time |-> proc_time,
        active_time |-> Period(proc_time.end, proc_time.end + method.duration)]

\* a reset that keeps the ingestion time of the dose it starts from
now_from_this_stale(self, n) == DoseNew(self.strain, self.method, self.ingested)

\* Dose.now_from_this, called when the clock reads n
now_from_this(self, n) == DoseNew(self.strain, self.method, n)

\* Dose.status, read when the clock is n
Status(self, n) ==
    IF InPeriod(n, self.processing_time) THEN "PROCESSING"
    ELSE IF InPeriod(n, self.active_time) THEN "ACTIVE"
    ELSE "EXPIRED"

\* Dose.current_period, read when the clock is n: the name of the window, or "None"
current_period(self, n) ==
    LET s == Status(self, n)
    IN IF s = "PROCESSING" THEN "processing_time"
       ELSE IF s = "ACTIVE" THEN "active_time"
       ELSE "None"

PeriodOf(self, name) ==
    IF name = "processing_time" THEN self.processing_time ELSE self.active_time

\* period.end.diff(): the absolute difference between period.end and the clock n
EndDiff(p, n) == Abs(p.end - n)

\* Dose.time_left once current_period chose `name`, the clock reading n at diff();
\* the text is kept with the window it was computed from
time_left(self, name, n) ==
    IF name = "None" THEN [period |-> "None", text |-> "Expired"]
    ELSE [period |-> name, text |-> <<"in_words", EndDiff(PeriodOf(self, name), n)>>]

\* Dose.prog_value once current_period chose `name`, the clock reading n at diff():
\* the fraction is kept as <<numerator, denominator>>
prog_value(self, name, n) ==
    IF name = "None" THEN [period |-> "None", value |-> <<1, 1>>]
    ELSE LET p == PeriodOf(self, name)
         IN [period |-> name, value |-> <<EndDiff(p, n), p.end - p.start>>]

\* the colour DoseRow.update picks for the progress ring
Color(ds) ==
    IF ds = "PROCESSING" THEN "Blue" ELSE IF ds = "ACTIVE" THEN "green" ELSE "red"

-----------------------------------------------------------------------------
(* DoseRow *)

RowIds == 1..MaxRows
NoDose == [strain |-> "", method |-> "None"]

Strains == {"TestStrain"}

\* DoseRow.__init__: the status text and the time-left text of the new dose, a
\* progress ring at 1 and no colour yet (the clock reads of the constructor are
\* taken as one; DoseRow.update below takes each of its reads apart)
RowInit(ds, n) ==
    [status |-> Status(ds, n),
     time_left |-> time_left(ds, current_period(ds, n), n),
     prog |-> [period |-> "None", value |-> <<1, 1>>],
     color |-> "None"]

NoDisp == [status |-> "None"]

\* list.remove(x): the list without its first element equal to x
RECURSIVE Remove(_, _)
Remove(s, x) ==
    IF s = <<>> THEN <<>>
    ELSE IF Head(s) = x THEN Tail(s)
    ELSE <<Head(s)>> \o Remove(Tail(s), x)

\* for dr in to_remove: rows.remove(dr)
RECURSIVE RemoveAll(_, _)
RemoveAll(s, rm) ==
    IF rm = <<>> THEN s ELSE RemoveAll(Remove(s, Head(rm)), Tail(rm))

Elems(s) == {s[k] : k \in 1..Len(s)}

-----------------------------------------------------------------------------
(* DoseManager: the lock *)

\* a block that does not take the lock
CanAcquireUnlocked(who) == TRUE

\* `with self._dose_lock` may be entered by `who`: the RLock is free (no handler
\* re-enters it while holding it)
CanAcquire(who) == lock = "free"

\* the UI thread between two handlers; its locals are dead
UiIdle == [pc |-> "idle", op |-> "none", row |-> 0, ingested |-> 0,
           method |-> FAKE_TEST_INGEST, i |-> 0, to_remove |-> <<>>,
           before |-> <<>>, expired_at_call |-> {}, old |-> NoDose, at |-> 0]

\* the poller thread before it is started; seen_rows and seen_dose keep the rows
\* and their doses as they were when the pass in progress entered the lock
ThreadInit == [pc |-> "unstarted", i |-> 0, ds |-> "None", period |-> "None",
               last_duration |-> 0, seen_rows |-> <<>>, seen_dose |-> <<>>]

NoObs == [status |-> "None", at |-> 0]

\* DoseManager.__init__, before the control is mounted
InitManager ==
    /\ rows = <<>>
    /\ dose = [r \in RowIds |-> NoDose]
    /\ disp = [r \in RowIds |-> NoDisp]
    /\ nextId = 1
    /\ lock = "free"
    /\ run = FALSE
    /\ mounted = FALSE
    /\ thread = ThreadInit
    /\ ui = UiIdle
    /\ raised = {}

Init ==
    /\ clock = 0
    /\ d = NoDose
    /\ obs = NoObs
    /\ InitManager

\* the wall clock reaches its next tick
Tick ==
    /\ clock < MaxClock
    /\ clock' = clock + 1
    /\ UNCHANGED <<d, obs, rows, dose, disp, nextId, lock, run, mounted, thread, ui, raised>>

-----------------------------------------------------------------------------
(* The UI thread's handlers *)

\* the ingestion time DoseUI.build.add computes when the clock reads n
AddIngested(when, unit, value, n) ==
    IF when = "NOW" THEN n ELSE n - UnitTicks(unit) * value

\* DoseUI.build.add: the ingestion time from the form, then the call of add_dose,
\* which waits for the lock
add(method, when, unit, value) ==
    /\ ui.pc = "idle"
    /\ nextId <= MaxRows
    /\ ui' = [UiIdle EXCEPT !.pc = "add_dose", !.op = "add_dose",
                            !.method = method,
                            !.ingested = AddIngested(when, unit, value, clock)]
    /\ UNCHANGED <<clock, d, obs, rows, dose, disp, nextId, lock, run, mounted, thread, raised>>

\* DoseManager.add_dose under the lock: a new DoseRow appended to the rows
add_dose ==
    /\ ui.pc = "add_dose"
    /\ CanAcquire("ui")
    /\ \E strain \in Strains :
          LET nd == DoseNew(strain, ui.method, ui.ingested)
          IN /\ dose' = [dose EXCEPT ![nextId] = nd]
             /\ disp' = [disp EXCEPT ![nextId] = RowInit(nd, clock)]
    /\ rows' = Append(rows, nextId)
    /\ nextId' = nextId + 1
    /\ ui' = [ui EXCEPT !.pc = "update", !.row = nextId]
    /\ UNCHANGED <<clock, d, obs, lock, run, mounted, thread, raised>>

\* DoseManager.delete_dose(row), from the delete button of a row created before:
\* rows.remove(row) raises ValueError when the row is not in the list, and the
\* handler ends there
delete_dose(row) ==
    /\ ui.pc = "idle"
    /\ row < nextId
    /\ CanAcquire("ui")
    /\ IF row \in Elems(rows)
       THEN /\ rows' = Remove(rows, row)
            /\ ui' = [UiIdle EXCEPT !.pc = "update", !.op = "delete_dose", !.row = row]
            /\ UNCHANGED raised
       ELSE /\ raised' = raised \cup {"delete_dose"}
            /\ UNCHANGED <<rows, ui>>
    /\ UNCHANGED <<clock, d, obs, dose, disp, nextId, lock, run, mounted, thread>>

\* DoseManager.reset_dose(row), from the reset button of a row created before;
\* ui.old, ui.at and ui.before keep the dose, the clock and the rows of the call
reset_dose(row) ==
    /\ ui.pc = "idle"
    /\ row < nextId
    /\ CanAcquire("ui")
    /\ dose' = [dose EXCEPT ![row] = now_from_this(dose[row], clock)]
    /\ ui' = [UiIdle EXCEPT !.pc = "update", !.op = "reset_dose", !.row = row,
                            !.old = dose[row], !.at = clock, !.before = rows]
    /\ UNCHANGED <<clock, d, obs, rows, disp, nextId, lock, run, mounted, thread, raised>>

\* DoseManager.clear_expired enters the lock and starts filtering the rows;
\* ui.before and ui.expired_at_call keep the rows and the expired rows of that instant
clear_expired ==
    /\ ui.pc = "idle"
    /\ CanAcquire("ui")
    /\ lock' = "ui"
    /\ ui' = [UiIdle EXCEPT !.pc = "filter", !.op = "clear_expired", !.i = 1,
                            !.before = rows,
                            !.expired_at_call =
                                {r \in Elems(rows) : Status(dose[r], clock) = "EXPIRED"}]
    /\ UNCHANGED <<clock, d, obs, rows, dose, disp, nextId, run, mounted, thread, raised>>

\* filter(lambda x: x.status is DoseStatus.expired, rows): one row's status is read
clear_filter ==
    /\ ui.pc = "filter"
    /\ ui.i <= Len(rows)
    /\ ui' = [ui EXCEPT !.i = @ + 1,
                        !.to_remove = IF Status(dose[rows[ui.i]], clock) = "EXPIRED"
                                      THEN Append(@, rows[ui.i]) ELSE @]
    /\ UNCHANGED <<clock, d, obs, rows, dose, disp, nextId, lock, run, mounted, thread, raised>>

\* the rows of to_remove are removed and the lock is left
clear_remove ==
    /\ ui.pc = "filter"
    /\ ui.i > Len(rows)
    /\ rows' = RemoveAll(rows, ui.to_remove)
    /\ lock' = "free"
    /\ ui' = [ui EXCEPT !.pc = "update", !.i = 0]
    /\ UNCHANGED <<clock, d, obs, dose, disp, nextId, run, mounted, thread, raised>>

\* self.update() / self._table.update() after the lock is left: the handler returns
ui_update ==
    /\ ui.pc = "update"
    /\ ui' = UiIdle
    /\ UNCHANGED <<clock, d, obs, rows, dose, disp, nextId, lock, run, mounted, thread, raised>>

-----------------------------------------------------------------------------
(* Mounting, and the poller thread *)

\* DoseManager.did_mount: Thread.start raises RuntimeError on a thread already started
did_mount ==
    /\ ~mounted
    /\ mounted' = TRUE
    /\ run' = TRUE
    /\ IF thread.pc = "unstarted"
       THEN /\ thread' = [thread EXCEPT !.pc = "check"]
            /\ UNCHANGED raised
       ELSE /\ raised' = raised \cup {"did_mount"}
            /\ UNCHANGED thread
    /\ UNCHANGED <<clock, d, obs, rows, dose, disp, nextId, lock, ui>>

\* DoseManager.will_unmount
will_unmount ==
    /\ mounted
    /\ mounted' = FALSE
    /\ run' = FALSE
    /\ UNCHANGED <<clock, d, obs, rows, dose, disp, nextId, lock, thread, ui, raised>>

\* while self._run
updater_check ==
    /\ thread.pc = "check"
    /\ thread' = [thread EXCEPT !.pc = IF run THEN "lock" ELSE "done"]
    /\ UNCHANGED <<clock, d, obs, rows, dose, disp, nextId, lock, run, mounted, ui, raised>>

\* do_update enters the lock
updater_lock ==
    /\ thread.pc = "lock"
    /\ CanAcquire("poller")
    /\ lock' = "poller"
    /\ thread' = [thread EXCEPT !.pc = "row", !.i = 1,
                                !.seen_rows = rows, !.seen_dose = dose]
    /\ UNCHANGED <<clock, d, obs, rows, dose, disp, nextId, run, mounted, ui, raised>>

\* DoseRow.update, first clock read: ds = self.dose.status, published as the label
update_status ==
    /\ thread.pc = "row"
    /\ thread.i <= Len(rows)
    /\ LET r == rows[thread.i]
           ds == Status(dose[r], clock)
       IN /\ disp' = [disp EXCEPT ![r].status = ds]
          /\ thread' = [thread EXCEPT !.pc = "tl_period", !.ds = ds]
    /\ UNCHANGED <<clock, d, obs, rows, dose, nextId, lock, run, mounted, ui, raised>>

\* self.dose.time_left, its clock read in current_period
update_tl_period ==
    /\ thread.pc = "tl_period"
    /\ LET r == rows[thread.i]
           p == current_period(dose[r], clock)
       IN IF p = "None"
          THEN /\ disp' = [disp EXCEPT ![r].time_left = time_left(dose[r], p, clock)]
               /\ thread' = [thread EXCEPT !.pc = "pv_period"]
          ELSE /\ thread' = [thread EXCEPT !.pc = "tl_diff", !.period = p]
               /\ UNCHANGED disp
    /\ UNCHANGED <<clock, d, obs, rows, dose, nextId, lock, run, mounted, ui, raised>>

\* self.dose.time_left, its clock read in period.end.diff()
update_tl_diff ==
    /\ thread.pc = "tl_diff"
    /\ LET r == rows[thread.i]
       IN disp' = [disp EXCEPT ![r].time_left = time_left(dose[r], thread.period, clock)]
    /\ thread' = [thread EXCEPT !.pc = "pv_period", !.period = "None"]
    /\ UNCHANGED <<clock, d, obs, rows, dose, nextId, lock, run, mounted, ui, raised>>

\* the end of DoseRow.update: the progress value is published and the colour follows ds
RowDone(r, pv) ==
    [disp[r] EXCEPT !.prog = pv, !.color = Color(thread.ds)]

\* self.dose.prog_value, its clock read in current_period
update_pv_period ==
    /\ thread.pc = "pv_period"
    /\ LET r == rows[thread.i]
           p == current_period(dose[r], clock)
       IN IF p = "None"
          THEN /\ disp' = [disp EXCEPT ![r] = RowDone(r, prog_value(dose[r], p, clock))]
               /\ thread' = [thread EXCEPT !.pc = "updated"]
          ELSE /\ thread' = [thread EXCEPT !.pc = "pv_diff", !.period = p]
               /\ UNCHANGED disp
    /\ UNCHANGED <<clock, d, obs, rows, dose, nextId, lock, run, mounted, ui, raised>>

\* self.dose.prog_value, its clock read in period.end.diff(); then the colour
update_pv_diff ==
    /\ thread.pc = "pv_diff"
    /\ LET r == rows[thread.i]
       IN disp' = [disp EXCEPT ![r] = RowDone(r, prog_value(dose[r], thread.period, clock))]
    /\ thread' = [thread EXCEPT !.pc = "updated", !.period = "None"]
    /\ UNCHANGED <<clock, d, obs, rows, dose, nextId, lock, run, mounted, ui, raised>>

\* super().update() returns and the for loop of do_update takes the next row
update_return ==
    /\ thread.pc = "updated"
    /\ thread' = [thread EXCEPT !.pc = "row", !.i = @ + 1, !.ds = "None"]
    /\ UNCHANGED <<clock, d, obs, rows, dose, disp, nextId, lock, run, mounted, ui, raised>>

\* do_update leaves the lock; timer stores the measured duration of the pass
updater_unlock ==
    /\ thread.pc = "row"
    /\ thread.i > Len(rows)
    /\ lock' = "free"
    /\ \E dur \in 0..MaxPassDuration :
          thread' = [thread EXCEPT !.pc = "sleep", !.i = 0, !.last_duration = dur,
                                   !.seen_rows = <<>>, !.seen_dose = <<>>]
    /\ UNCHANGED <<clock, d, obs, rows, dose, disp, nextId, run, mounted, ui, raised>>

\* time.sleep(self.update_frequency - last_duration): ValueError on a negative length
updater_sleep ==
    /\ thread.pc = "sleep"
    /\ IF update_frequency - thread.last_duration < 0
       THEN /\ thread' = [thread EXCEPT !.pc = "crashed"]
            /\ raised' = raised \cup {"_updater"}
       ELSE /\ thread' = [thread EXCEPT !.pc = "check", !.last_duration = 0]
            /\ UNCHANGED raised
    /\ UNCHANGED <<clock, d, obs, rows, dose, disp, nextId, lock, run, mounted, ui>>

\* DoseManager._updater, the poller thread
Updater ==
    \/ updater_check
    \/ updater_lock
    \/ update_status
    \/ update_tl_period
    \/ update_tl_diff
    \/ update_pv_period
    \/ update_pv_diff
    \/ update_return
    \/ updater_unlock
    \/ updater_sleep

-----------------------------------------------------------------------------
(* The two threads of the manager.  The UI thread adds TEST doses taken now or *)
(* a minute ago (expired on arrival) and presses the buttons of the rows on    *)
(* display; the control is mounted and unmounted; the clock stands still, so   *)
(* the interleavings of the threads are what varies.                           *)

Next ==
    \/ \E when \in {"NOW", "EARLIER"} : add(FAKE_TEST_INGEST, when, "minutes", 1)
    \/ add_dose
    \/ \E row \in Elems(rows) : delete_dose(row)
    \/ \E row \in Elems(rows) : reset_dose(row)
    \/ clear_expired
    \/ clear_filter
    \/ clear_remove
    \/ ui_update
    \/ did_mount
    \/ will_unmount
    \/ Updater

Spec == Init /\ [][Next]_vars

\* the scheduler lets both threads run: the poller takes a step whenever it can
\* take one again and again, and the UI thread finishes a scan it has begun
FairSpec == Spec /\ SF_vars(Updater) /\ WF_vars(clear_filter \/ clear_remove)

-----------------------------------------------------------------------------
(* The poller over rows whose doses age: the clock ticks between any two steps, *)
(* doses taken now are added and reset, the control is mounted once             *)

NextRow ==
    \/ Tick
    \/ add(FAKE_TEST_INGEST, "NOW", "minutes", 0)
    \/ add_dose
    \/ \E row \in Elems(rows) : reset_dose(row)
    \/ ui_update
    \/ did_mount
    \/ Updater

SpecRow == Init /\ [][NextRow]_vars

-----------------------------------------------------------------------------
(* The UI thread alone under a ticking clock, with every ingestion time the   *)
(* form can give for the default method (TEST) and the buttons of every row   *)
(* created so far, on display or not                                          *)

NextUI ==
    \/ Tick
    \/ \E when \in {"NOW", "EARLIER"}, unit \in {"minutes", "hours"},
          value \in -MaxWhen..MaxWhen : add(FAKE_TEST_INGEST, when, unit, value)
    \/ add_dose
    \/ \E row \in RowIds : delete_dose(row)
    \/ \E row \in RowIds : reset_dose(row)
    \/ clear_expired
    \/ clear_filter
    \/ clear_remove
    \/ ui_update

SpecUI == Init /\ [][NextUI]_vars

-----------------------------------------------------------------------------
(* Adding and resetting under a ticking clock: every ingestion time the form  *)
(* can give for the default method, and the reset button of every row         *)

NextReset ==
    \/ Tick
    \/ \E when \in {"NOW", "EARLIER"}, unit \in {"minutes", "hours"},
          value \in -MaxWhen..MaxWhen : add(FAKE_TEST_INGEST, when, unit, value)
    \/ add_dose
    \/ \E row \in RowIds : reset_dose(row)
    \/ ui_update

SpecReset == Init /\ [][NextReset]_vars

-----------------------------------------------------------------------------
(* One Dose and a clock moved forward by hand, as in tests/test___init__.py *)

\* the instants at and next to the ends of the two windows of dose x
Instants(x) ==
    {b + k : b \in {x.processing_time.start, x.processing_time.end, x.active_time.end},
             k \in -1..1}

\* dose = Dose.new(strain, method, ingested) with an ingestion time the form can
\* give, created when the clock reads 0
InitDose ==
    /\ clock = 0
    /\ \E strain \in Strains, method \in ingest_methods, when \in {"NOW", "EARLIER"},
          unit \in {"minutes", "hours"}, value \in -MaxWhen..MaxWhen :
          d = DoseNew(strain, method, AddIngested(when, unit, value, 0))
    /\ obs = NoObs
    /\ InitManager

\* time_machine.move_to(t), forward
move_to(t) ==
    /\ t > clock
    /\ clock' = t
    /\ UNCHANGED <<d, obs, rows, dose, disp, nextId, lock, run, mounted, thread, ui, raised>>

\* dose.status is read
read_status ==
    /\ obs' = [status |-> Status(d, clock), at |-> clock]
    /\ UNCHANGED <<clock, d, rows, dose, disp, nextId, lock, run, mounted, thread, ui, raised>>

NextDose ==
    \/ \E t \in Instants(d) : move_to(t)
    \/ read_status

SpecDose == InitDose /\ [][NextDose]_vars

-----------------------------------------------------------------------------
(* Properties of Dose.status, under SpecDose *)

StatusRead == obs.status # "None"

\* C1: a status read when the clock is exactly ingested + onset (the end of the
\* processing window, the start of the active window) is ACTIVE
C1_ActiveAtOnset ==
    (StatusRead /\ obs.at = d.ingested + d.method.onset) => obs.status = "ACTIVE"

\* C2: a status read when the clock is exactly ingested + onset + duration (the
\* end of the active window) is EXPIRED
C2_ExpiredAtEnd ==
    (StatusRead /\ obs.at = d.ingested + d.method.onset + d.method.duration)
        => obs.status = "EXPIRED"

Rank(st) == IF st = "PROCESSING" THEN 1 ELSE IF st = "ACTIVE" THEN 2 ELSE 3

\* C3: as the clock advances, the statuses read from one Dose never go back in
\* the order PROCESSING, ACTIVE, EXPIRED
C3_StatusMonotonic ==
    [][(StatusRead /\ obs'.status # "None") => Rank(obs'.status) >= Rank(obs.status)]_vars

-----------------------------------------------------------------------------
(* Properties of the UI thread's handlers, under SpecUI (C4, C6) and SpecReset (C7) *)

Returned(op) == ui.pc = "update" /\ ui.op = op

\* C4: when clear_expired returns, the rows are the rows of the call without
\* those that were expired at the instant of the call, in the same order
C4_ClearExactlyExpired ==
    Returned("clear_expired")
        => rows = SelectSeq(ui.before, LAMBDA r : r \notin ui.expired_at_call)

\* C6: no handler of the manager raises, whatever row its button belongs to, and
\* no row is twice in the collection
C6_NoHandlerRaises ==
    /\ raised = {}
    /\ Cardinality(Elems(rows)) = Len(rows)

\* C7, as claimed: the Dose a reset puts in the row has the strain and the method
\* of the Dose it replaces, an ingestion time not earlier than that Dose's, and
\* the rows are as they were
C7_ResetNotEarlier ==
    Returned("reset_dose")
        => /\ dose[ui.row].strain = ui.old.strain
           /\ dose[ui.row].method = ui.old.method
           /\ dose[ui.row].ingested >= ui.old.ingested
           /\ rows = ui.before

\* C7, amended: the Dose a reset puts in the row has the strain and the method of
\* the Dose it replaces and is ingested at the clock of the reset, which is not
\* earlier than the replaced Dose's ingestion unless that one lay in the future;
\* the rows are as they were
C7_ResetAtNow ==
    Returned("reset_dose")
        => /\ dose[ui.row].strain = ui.old.strain
           /\ dose[ui.row].method = ui.old.method
           /\ dose[ui.row].ingested = ui.at
           /\ ui.old.ingested <= ui.at => dose[ui.row].ingested >= ui.old.ingested
           /\ dose[ui.row] = DoseNew(ui.old.strain, ui.old.method, ui.at)
           /\ rows = ui.before

\* a reset has replaced the older Dose of the second of two rows on display
C7_ResetDone ==
    /\ Returned("reset_dose")
    /\ Len(rows) = 2
    /\ rows[2] = ui.row
    /\ ui.old.ingested < ui.at
    /\ dose[ui.row].ingested = ui.at

-----------------------------------------------------------------------------
(* Properties of the two threads, under Spec and FairSpec *)

\* C5: the poller's sleep raises nothing, however long the pass took
C5_SleepNeverRaises ==
    /\ thread.pc # "crashed"
    /\ "_updater" \notin raised

PollerInPass ==
    thread.pc \in {"row", "tl_period", "tl_diff", "pv_period", "pv_diff", "updated"}

PollerInRow ==
    thread.pc \in {"tl_period", "tl_diff", "pv_period", "pv_diff", "updated"}

UiInScan == ui.pc = "filter"

\* C8: the poll pass and the mutations of the UI thread exclude each other: they
\* are never both inside the lock, the rows and their doses stay as the pass found
\* them, and the row being updated is one of the rows
C8_PassExclusive ==
    /\ ~(PollerInPass /\ UiInScan)
    /\ PollerInPass => /\ lock = "poller"
                       /\ rows = thread.seen_rows
                       /\ dose = thread.seen_dose
    /\ UiInScan => lock = "ui"
    /\ PollerInRow => thread.i \in 1..Len(rows)

\* the poller is inside the update of a row while add_dose, called meanwhile,
\* waits for the lock with the next row
C8_Contended ==
    /\ PollerInRow
    /\ lock = "poller"
    /\ rows[thread.i] \in Elems(rows)
    /\ ui.pc = "add_dose"

\* C9: once will_unmount has set the flag to false, the poller thread ends
C9_UnmountStopsPoller ==
    (~run /\ thread.pc # "unstarted") ~> (thread.pc \in {"done", "crashed"})

-----------------------------------------------------------------------------
(* Properties of DoseRow.update, under SpecRow *)

PeriodOfLabel(label) ==
    IF label = "PROCESSING" THEN "processing_time"
    ELSE IF label = "ACTIVE" THEN "active_time"
    ELSE "None"

\* C10: when DoseRow.update returns, the time left and the progress value of the
\* row are those of the window its status label names, and the time left reads
\* "Expired" exactly when the label is EXPIRED
C10_FieldsConsistent ==
    thread.pc = "updated"
        => LET f == disp[rows[thread.i]]
           IN /\ f.time_left.period = PeriodOfLabel(f.status)
              /\ f.prog.period = PeriodOfLabel(f.status)
              /\ (f.time_left.text = "Expired") <=> (f.status = "EXPIRED")

====
